---- MODULE Spec2Model ----
(***************************************************************************)
(* Model of crates/nostr-sdk-db/src/index.rs: the in-memory event indexes  *)
(* (DatabaseIndexes) with their five tokio RwLocks and the atomic counter, *)
(* and the three operations index_event, query and clear.                  *)
(*                                                                         *)
(* Every operation is split at its await points and at its guard drops:    *)
(* one action runs from one lock acquisition up to the next one, and the   *)
(* guards that go out of scope are dropped one by one in reverse order of  *)
(* declaration, as Rust drops them.                                        *)
(***************************************************************************)
EXTENDS Integers, Sequences, FiniteSets, TLC

\* Bound on the number of surrogate keys issued (caps the AtomicU64 counter).
MaxEvents == 3

\* Option<T>
None == <<>>
Some(x) == <<x>>

\* An empty HashMap / BTreeMap.
EmptyMap == <<>>

Min(a, b) == IF a <= b THEN a ELSE b

(***************************************************************************)
(* The consumed Event type.  tags is the tag list, each tag a pair         *)
(* <<single letter, first value>>.                                         *)
(***************************************************************************)
Ev(id, pubkey, kind, created_at, tags, expired, ephemeral) ==
    [id |-> id, pubkey |-> pubkey, kind |-> kind, created_at |-> created_at,
     tags |-> tags, expired |-> expired, ephemeral |-> ephemeral]

E1 == Ev("i1", "a1", 1, 1, << <<"e", "x">>, <<"e", "y">> >>, FALSE, FALSE)
E2 == Ev("i2", "a2", 1, 2, << <<"e", "x">>, <<"p", "y">> >>, FALSE, FALSE)
E3 == Ev("i3", "a1", 7, 2, << <<"p", "y">> >>, FALSE, FALSE)
\* E1 again, received after its expiration time
E1Expired == Ev("i1", "a1", 1, 1, << <<"e", "x">>, <<"e", "y">> >>, TRUE, FALSE)
\* an ephemeral event that every predicate used below would match
E5 == Ev("i5", "a1", 1, 2, << <<"e", "x">>, <<"p", "y">> >>, FALSE, TRUE)

AllEvents == {E1, E2, E3, E1Expired, E5}

\* The event an identifier stands for (identifiers are content-derived).
EventOfId(id) == CHOOSE e \in AllEvents : e.id = id /\ ~e.expired

is_expired(event) == event.expired
is_ephemeral(event) == event.ephemeral

\* Event::build_tags_index: letter -> set of the values carried for it
build_tags_index(event) ==
    [a \in {event.tags[i][1] : i \in DOMAIN event.tags} |->
        {event.tags[i][2] : i \in {j \in DOMAIN event.tags : event.tags[j][1] = a}}]

(***************************************************************************)
(* SmallerIdentifier([u8; 8]) and MappingIdentifier                        *)
(***************************************************************************)
\* u64::to_be_bytes.  Counter values stay far below 2^32 here, so the four
\* high bytes are 0 (256^4 and up do not fit TLC's 32-bit integers).
to_be_bytes(n) == [i \in 1..8 |-> IF i <= 4 THEN 0 ELSE (n \div (256 ^ (8 - i))) % 256]

\* derived Ord of [u8; 8]: lexicographic
SmallerIdentifier_cmp(a, b) ==
    IF a = b THEN "Equal"
    ELSE LET i == CHOOSE k \in 1..8 : a[k] # b[k] /\ \A j \in 1..(k - 1) : a[j] = b[j]
         IN  IF a[i] < b[i] THEN "Less" ELSE "Greater"

Timestamp_cmp(a, b) == IF a < b THEN "Less" ELSE IF a = b THEN "Equal" ELSE "Greater"

MappingIdentifier(timestamp, sid) == [timestamp |-> timestamp, sid |-> sid]

\* Faulty variant: timestamps compared ascending
cmp_ascending(self, other) ==
    LET timestamp_cmp == Timestamp_cmp(self.timestamp, other.timestamp)
    IN  IF timestamp_cmp # "Equal" THEN timestamp_cmp
        ELSE SmallerIdentifier_cmp(self.sid, other.sid)

\* impl Ord for MappingIdentifier
cmp(self, other) ==
    LET timestamp_cmp == Timestamp_cmp(other.timestamp, self.timestamp)
    IN  IF timestamp_cmp # "Equal" THEN timestamp_cmp
        ELSE SmallerIdentifier_cmp(self.sid, other.sid)

\* Iteration order of a BTreeSet<MappingIdentifier>
RECURSIVE into_iter(_)
into_iter(S) ==
    IF S = {} THEN <<>>
    ELSE LET m == CHOOSE x \in S : \A y \in S : cmp(x, y) # "Greater"
         IN  <<m>> \o into_iter(S \ {m})

take(s, n) == SubSeq(s, 1, Min(n, Len(s)))
rev(s) == [i \in 1..Len(s) |-> s[Len(s) + 1 - i]]

\* usize::MAX.  usize is 64 bits wide; it is modelled 31 bits wide, the widest
\* TLC's integers allow, and isize one bit narrower, as in Rust.
usize_MAX == 2147483647
isize_MAX == usize_MAX \div 2

\* Vec::<EventId>::with_capacity(capacity) panics ("capacity overflow") when
\* the bytes asked for exceed isize::MAX; an EventId takes at least one byte.
with_capacity_panics(capacity) == capacity > isize_MAX

(***************************************************************************)
(* Filter                                                                  *)
(***************************************************************************)
Flt(ids, kinds, authors, since, until, generic_tags, limit) ==
    [ids |-> ids, kinds |-> kinds, authors |-> authors, since |-> since,
     until |-> until, generic_tags |-> generic_tags, limit |-> limit]

(***************************************************************************)
(* State                                                                   *)
(***************************************************************************)
VARIABLES
    counter,            \* Arc<AtomicU64>
    mapping,            \* sid -> EventId
    kinds_index,        \* Kind -> set of MappingIdentifier
    authors_index,      \* pubkey -> set of MappingIdentifier
    created_at_index,   \* Timestamp -> set of MappingIdentifier
    tags_index,         \* letter -> (MappingIdentifier -> set of values)
    guards,             \* per task: the lock guards alive in its scope, in declaration order
    pc,                 \* per task: where its call stands
    call,               \* per task: the call it runs or has just finished
    mapping_id,         \* per task: local mapping_id of index_event
    matching_sids,      \* per task: local matching_sids of query
    ret                 \* per task: the value of the finished call

shared == <<counter, mapping, kinds_index, authors_index, created_at_index, tags_index>>
vars == <<counter, mapping, kinds_index, authors_index, created_at_index, tags_index,
          guards, pc, call, mapping_id, matching_sids, ret>>

Tasks == {"t1", "t2"}

NoCall == [op |-> "none"]
NoRet == [kind |-> "none"]
Vec(s) == [kind |-> "Vec", ids |-> s]
Unit == [kind |-> "unit"]
\* the call was ended by a panic: there is no value
Panicked == [kind |-> "panic"]
\* EventIndexResult
EventIndexResult(to_store, to_discard) ==
    [kind |-> "EventIndexResult", to_store |-> to_store, to_discard |-> to_discard]
EventIndexResult_default == EventIndexResult(FALSE, {})

\* DatabaseIndexes::new
Init ==
    /\ counter = 0
    /\ mapping = EmptyMap
    /\ kinds_index = EmptyMap
    /\ authors_index = EmptyMap
    /\ created_at_index = EmptyMap
    /\ tags_index = EmptyMap
    /\ guards = [p \in Tasks |-> <<>>]
    /\ pc = [p \in Tasks |-> "idle"]
    /\ call = [p \in Tasks |-> NoCall]
    /\ mapping_id = [p \in Tasks |-> None]
    /\ matching_sids = [p \in Tasks |-> {}]
    /\ ret = [p \in Tasks |-> NoRet]

(***************************************************************************)
(* tokio::sync::RwLock: any number of read guards or one write guard.      *)
(* The order in which waiting tasks are served is left open: a waiting     *)
(* task may take the lock whenever no conflicting guard is alive.          *)
(***************************************************************************)
Holds(p, lock, mode) == \E i \in DOMAIN guards[p] : guards[p][i] = <<lock, mode>>
CanWrite(lock) == \A q \in Tasks : ~Holds(q, lock, "read") /\ ~Holds(q, lock, "write")
CanRead(lock) == \A q \in Tasks : ~Holds(q, lock, "write")

\* `let guard = lock.write().await;`: the guard lives to the end of the scope
KeepGuard(gs, lock, mode) == Append(gs, <<lock, mode>>)

\* a call begins
Begin(p, c, next, mid, r) ==
    /\ pc[p] = "idle"
    /\ call' = [call EXCEPT ![p] = c]
    /\ pc' = [pc EXCEPT ![p] = next]
    /\ mapping_id' = [mapping_id EXCEPT ![p] = mid]
    /\ matching_sids' = [matching_sids EXCEPT ![p] = {}]
    /\ ret' = [ret EXCEPT ![p] = r]

\* HashMap::insert
HashMap_insert(map, k, v) == [x \in DOMAIN map \cup {k} |-> IF x = k THEN v ELSE map[x]]

\* map.entry(key).and_modify(|set| set.insert(mid)).or_insert_with(|| {mid})
entry_insert(index, key, mid) ==
    HashMap_insert(index, key, IF key \in DOMAIN index THEN index[key] \cup {mid} ELSE {mid})

(***************************************************************************)
(* index_event                                                             *)
(***************************************************************************)
\* Faulty variant: the ephemeral check forgotten
is_expired_only(event) == is_expired(event)

\* line 84
is_expired_or_ephemeral(event) == is_expired(event) \/ is_ephemeral(event)

\* lines 84-86: the early return
index_event_rejected(p, event) ==
    /\ is_expired_or_ephemeral(event)
    /\ Begin(p, [op |-> "index_event", event |-> event], "done", None,
             EventIndexResult_default)
    /\ UNCHANGED <<shared, guards>>

\* Faulty variant: the counter value cut to its lowest bit
next_sid_truncated(c) == to_be_bytes(c % 2)

\* next_sid: fetch_add returns the previous value
next_sid(c) == to_be_bytes(c)

\* lines 88-96
index_event_next_sid(p, event) ==
    /\ ~is_expired_or_ephemeral(event)
    /\ counter < MaxEvents
    /\ counter' = counter + 1
    /\ Begin(p, [op |-> "index_event", event |-> event], "ie_mapping",
             MappingIdentifier(event.created_at, next_sid(counter)), NoRet)
    /\ UNCHANGED <<mapping, kinds_index, authors_index, created_at_index, tags_index, guards>>

\* Faulty variant: the bucket replaced instead of extended
index_event_kind_replacing(index, mid, event) == HashMap_insert(index, event.kind, {mid})

index_event_kind(index, mid, event) == entry_insert(index, event.kind, mid)
index_event_author(index, mid, event) == entry_insert(index, event.pubkey, mid)
index_event_created_at(index, mid, event) == entry_insert(index, event.created_at, mid)
index_event_tags(index, mid, event) ==
    LET built == build_tags_index(event)
    IN  [a \in DOMAIN index \cup DOMAIN built |->
            IF a \in DOMAIN built
            THEN HashMap_insert(IF a \in DOMAIN index THEN index[a] ELSE EmptyMap, mid, built[a])
            ELSE index[a]]

\* Faulty variant: the guards of the secondary indexes dropped right after each update
index_event_guard_short(gs, lock) ==
    IF lock = "mapping" THEN KeepGuard(gs, lock, "write") ELSE gs

\* the write guards of index_event live to the end of the `if should_insert` block
index_event_guard(gs, lock) == KeepGuard(gs, lock, "write")

\* Faulty variant: the mapping lock taken and the entry not stored
index_event_mapping_skipped(p) ==
    /\ pc[p] = "ie_mapping"
    /\ CanWrite("mapping")
    /\ guards' = [guards EXCEPT ![p] = index_event_guard(@, "mapping")]
    /\ pc' = [pc EXCEPT ![p] = "ie_kinds"]
    /\ UNCHANGED <<shared, call, mapping_id, matching_sids, ret>>

\* lines 98-99
index_event_mapping(p) ==
    /\ pc[p] = "ie_mapping"
    /\ CanWrite("mapping")
    /\ guards' = [guards EXCEPT ![p] = index_event_guard(@, "mapping")]
    /\ mapping' = HashMap_insert(mapping, mapping_id[p].sid, call[p].event.id)
    /\ pc' = [pc EXCEPT ![p] = "ie_kinds"]
    /\ UNCHANGED <<counter, kinds_index, authors_index, created_at_index, tags_index,
                   call, mapping_id, matching_sids, ret>>

\* lines 102-104
index_event_kinds(p) ==
    /\ pc[p] = "ie_kinds"
    /\ CanWrite("kinds")
    /\ guards' = [guards EXCEPT ![p] = index_event_guard(@, "kinds")]
    /\ kinds_index' = index_event_kind(kinds_index, mapping_id[p], call[p].event)
    /\ pc' = [pc EXCEPT ![p] = "ie_authors"]
    /\ UNCHANGED <<counter, mapping, authors_index, created_at_index, tags_index,
                   call, mapping_id, matching_sids, ret>>

\* lines 107-109
index_event_authors(p) ==
    /\ pc[p] = "ie_authors"
    /\ CanWrite("authors")
    /\ guards' = [guards EXCEPT ![p] = index_event_guard(@, "authors")]
    /\ authors_index' = index_event_author(authors_index, mapping_id[p], call[p].event)
    /\ pc' = [pc EXCEPT ![p] = "ie_created_at"]
    /\ UNCHANGED <<counter, mapping, kinds_index, created_at_index, tags_index,
                   call, mapping_id, matching_sids, ret>>

\* lines 112-114
index_event_created(p) ==
    /\ pc[p] = "ie_created_at"
    /\ CanWrite("created_at")
    /\ guards' = [guards EXCEPT ![p] = index_event_guard(@, "created_at")]
    /\ created_at_index' =
           index_event_created_at(created_at_index, mapping_id[p], call[p].event)
    /\ pc' = [pc EXCEPT ![p] = "ie_tags"]
    /\ UNCHANGED <<counter, mapping, kinds_index, authors_index, tags_index,
                   call, mapping_id, matching_sids, ret>>

\* lines 117-119
index_event_tag(p) ==
    /\ pc[p] = "ie_tags"
    /\ CanWrite("tags")
    /\ guards' = [guards EXCEPT ![p] = index_event_guard(@, "tags")]
    /\ tags_index' = index_event_tags(tags_index, mapping_id[p], call[p].event)
    /\ pc' = [pc EXCEPT ![p] = "ie_drop"]
    /\ UNCHANGED <<counter, mapping, kinds_index, authors_index, created_at_index,
                   call, mapping_id, matching_sids, ret>>

\* Guards going out of scope are dropped last-declared first.
drop_last(gs) == SubSeq(gs, 1, Len(gs) - 1)

\* line 120 (end of the block) and lines 122-125 (the value returned)
index_event_drop(p) ==
    /\ pc[p] = "ie_drop"
    /\ guards' = [guards EXCEPT ![p] = drop_last(@)]
    /\ IF Len(guards[p]) <= 1
       THEN /\ pc' = [pc EXCEPT ![p] = "done"]
            /\ ret' = [ret EXCEPT ![p] = EventIndexResult(TRUE, {})]
       ELSE UNCHANGED <<pc, ret>>
    /\ UNCHANGED <<shared, call, mapping_id, matching_sids>>

(***************************************************************************)
(* query                                                                   *)
(***************************************************************************)
\* Iteration orders of a HashSet: every enumeration of its elements
HashSet_iter(S) ==
    {s \in [1..Cardinality(S) -> S] : \A x \in S : \E i \in DOMAIN s : s[i] = x}

\* Faulty variant: the limit applied to the id-set
query_ids_limited(p, filter) ==
    /\ filter.ids # {}
    /\ \E s \in HashSet_iter(filter.ids) :
          Begin(p, [op |-> "query", filter |-> filter], "done", None,
                Vec(IF filter.limit # None THEN take(s, filter.limit[1]) ELSE s))
    /\ UNCHANGED <<shared, guards>>

\* lines 214-216
query_ids(p, filter) ==
    /\ filter.ids # {}
    /\ \E s \in HashSet_iter(filter.ids) :
          Begin(p, [op |-> "query", filter |-> filter], "done", None, Vec(s))
    /\ UNCHANGED <<shared, guards>>

\* Faulty variant: the comparison turned round
since_before_until(filter) ==
    /\ filter.since # None
    /\ filter.until # None
    /\ filter.since[1] < filter.until[1]

\* lines 218-219
since_after_until(filter) ==
    /\ filter.since # None
    /\ filter.until # None
    /\ filter.since[1] > filter.until[1]

\* lines 218-222
query_since_after_until(p, filter) ==
    /\ filter.ids = {}
    /\ since_after_until(filter)
    /\ Begin(p, [op |-> "query", filter |-> filter], "done", None, Vec(<<>>))
    /\ UNCHANGED <<shared, guards>>

\* line 224: the call goes on to its first lock
query_begin(p, filter) ==
    /\ filter.ids = {}
    /\ ~since_after_until(filter)
    /\ Begin(p, [op |-> "query", filter |-> filter], "q_kinds", None, NoRet)
    /\ UNCHANGED <<shared, guards>>

\* DatabaseIndexes::query_index
query_index(index, keys) ==
    UNION {index[key] : key \in keys \cap DOMAIN index}

\* intersect_or_extend
intersect_or_extend(main, other) ==
    IF main = {} THEN other ELSE main \cap other

\* Faulty variant: range(since..until): the upper bound excluded
range_exclusive(index, since, until) ==
    UNION {index[t] : t \in {k \in DOMAIN index : since <= k /\ k < until}}

\* created_at_index.range(since..=until), range(since..), range(..=until)
range_inclusive(index, since, until) ==
    UNION {index[t] : t \in {k \in DOMAIN index : since <= k /\ k <= until}}
range_from(index, since) ==
    UNION {index[t] : t \in {k \in DOMAIN index : since <= k}}
range_to_inclusive(index, until) ==
    UNION {index[t] : t \in {k \in DOMAIN index : k <= until}}

\* Faulty variant: any required value is enough
tags_matching_any(index, generic_tags) ==
    UNION {{id \in DOMAIN index[tagname] :
               \E value \in generic_tags[tagname] : value \in index[tagname][id]}
           : tagname \in DOMAIN generic_tags \cap DOMAIN index}

\* lines 266-276
tags_matching(index, generic_tags) ==
    UNION {{id \in DOMAIN index[tagname] : generic_tags[tagname] \subseteq index[tagname][id]}
           : tagname \in DOMAIN generic_tags \cap DOMAIN index}

\* lines 231-279, the four read guards held
evaluate(filter, kinds, authors, created_at, tags) ==
    LET m0 == {}
        m1 == IF filter.kinds # {}
              THEN intersect_or_extend(m0, query_index(kinds, filter.kinds)) ELSE m0
        m2 == IF filter.authors # {}
              THEN intersect_or_extend(m1, query_index(authors, filter.authors)) ELSE m1
        m3 == IF filter.since # None /\ filter.until # None
              THEN intersect_or_extend(m2,
                      range_inclusive(created_at, filter.since[1], filter.until[1]))
              ELSE LET a == IF filter.since # None
                            THEN intersect_or_extend(m2, range_from(created_at, filter.since[1]))
                            ELSE m2
                   IN  IF filter.until # None
                       THEN intersect_or_extend(a, range_to_inclusive(created_at, filter.until[1]))
                       ELSE a
        m4 == IF DOMAIN filter.generic_tags # {}
              THEN intersect_or_extend(m3, tags_matching(tags, filter.generic_tags)) ELSE m3
    IN  m4

\* the read guards of query live to the end of the function
query_guard(gs, lock) == KeepGuard(gs, lock, "read")

\* line 226
query_read_kinds(p) ==
    /\ pc[p] = "q_kinds"
    /\ CanRead("kinds")
    /\ guards' = [guards EXCEPT ![p] = query_guard(@, "kinds")]
    /\ pc' = [pc EXCEPT ![p] = "q_authors"]
    /\ UNCHANGED <<shared, call, mapping_id, matching_sids, ret>>

\* line 227
query_read_authors(p) ==
    /\ pc[p] = "q_authors"
    /\ CanRead("authors")
    /\ guards' = [guards EXCEPT ![p] = query_guard(@, "authors")]
    /\ pc' = [pc EXCEPT ![p] = "q_created_at"]
    /\ UNCHANGED <<shared, call, mapping_id, matching_sids, ret>>

\* line 228
query_read_created_at(p) ==
    /\ pc[p] = "q_created_at"
    /\ CanRead("created_at")
    /\ guards' = [guards EXCEPT ![p] = query_guard(@, "created_at")]
    /\ pc' = [pc EXCEPT ![p] = "q_tags"]
    /\ UNCHANGED <<shared, call, mapping_id, matching_sids, ret>>

\* lines 229-279: the last index lock, then the predicates
query_read_tags(p) ==
    /\ pc[p] = "q_tags"
    /\ CanRead("tags")
    /\ guards' = [guards EXCEPT ![p] = query_guard(@, "tags")]
    /\ matching_sids' = [matching_sids EXCEPT ![p] =
           evaluate(call[p].filter, kinds_index, authors_index, created_at_index, tags_index)]
    /\ pc' = [pc EXCEPT ![p] = "q_mapping"]
    /\ UNCHANGED <<shared, call, mapping_id, ret>>

\* lines 286-291: sids without a mapping entry are skipped
resolve(mids, map) ==
    LET found == SelectSeq(mids, LAMBDA mid : mid.sid \in DOMAIN map)
    IN  [i \in 1..Len(found) |-> map[found[i].sid]]

\* line 283
unwrap_or(option, default) == IF option # None THEN option[1] ELSE default

\* lines 283-293
matching_event_ids(filter, sids, map) ==
    LET limit == unwrap_or(filter.limit, Cardinality(sids))
    IN  resolve(rev(take(into_iter(sids), limit)), map)

\* lines 281-293
query_read_mapping(p) ==
    /\ pc[p] = "q_mapping"
    /\ CanRead("mapping")
    /\ guards' = [guards EXCEPT ![p] = query_guard(@, "mapping")]
    /\ ret' = [ret EXCEPT ![p] =
           IF with_capacity_panics(unwrap_or(call[p].filter.limit,
                                             Cardinality(matching_sids[p])))
           THEN Panicked
           ELSE Vec(matching_event_ids(call[p].filter, matching_sids[p], mapping))]
    /\ matching_sids' = [matching_sids EXCEPT ![p] = {}]
    /\ pc' = [pc EXCEPT ![p] = "q_drop"]
    /\ UNCHANGED <<shared, call, mapping_id>>

\* line 294: the guards are dropped and the vector is returned; after a panic
\* at line 284 the unwinding drops them in the same order
query_drop(p) ==
    /\ pc[p] = "q_drop"
    /\ guards' = [guards EXCEPT ![p] = drop_last(@)]
    /\ pc' = [pc EXCEPT ![p] = IF Len(guards[p]) <= 1 THEN "done" ELSE @]
    /\ UNCHANGED <<shared, call, mapping_id, matching_sids, ret>>

(***************************************************************************)
(* clear                                                                   *)
(***************************************************************************)
clear_guard(gs, lock) == KeepGuard(gs, lock, "write")

\* line 314
clear_begin(p) ==
    /\ Begin(p, [op |-> "clear"], "cl_kinds", None, NoRet)
    /\ UNCHANGED <<shared, guards>>

\* lines 315-316
clear_kinds(p) ==
    /\ pc[p] = "cl_kinds"
    /\ CanWrite("kinds")
    /\ guards' = [guards EXCEPT ![p] = clear_guard(@, "kinds")]
    /\ kinds_index' = EmptyMap
    /\ pc' = [pc EXCEPT ![p] = "cl_authors"]
    /\ UNCHANGED <<counter, mapping, authors_index, created_at_index, tags_index,
                   call, mapping_id, matching_sids, ret>>

\* Faulty variant: the created-at index emptied as well (lines 321-322 brought back)
clear_authors_and_created_at(p) ==
    /\ pc[p] = "cl_authors"
    /\ CanWrite("authors")
    /\ guards' = [guards EXCEPT ![p] = clear_guard(@, "authors")]
    /\ authors_index' = EmptyMap
    /\ created_at_index' = EmptyMap
    /\ pc' = [pc EXCEPT ![p] = "cl_drop"]
    /\ UNCHANGED <<counter, mapping, kinds_index, tags_index,
                   call, mapping_id, matching_sids, ret>>

\* lines 318-319
clear_authors(p) ==
    /\ pc[p] = "cl_authors"
    /\ CanWrite("authors")
    /\ guards' = [guards EXCEPT ![p] = clear_guard(@, "authors")]
    /\ authors_index' = EmptyMap
    /\ pc' = [pc EXCEPT ![p] = "cl_drop"]
    /\ UNCHANGED <<counter, mapping, kinds_index, created_at_index, tags_index,
                   call, mapping_id, matching_sids, ret>>

\* line 323
clear_drop(p) ==
    /\ pc[p] = "cl_drop"
    /\ guards' = [guards EXCEPT ![p] = drop_last(@)]
    /\ IF Len(guards[p]) <= 1
       THEN /\ pc' = [pc EXCEPT ![p] = "done"]
            /\ ret' = [ret EXCEPT ![p] = Unit]
       ELSE UNCHANGED <<pc, ret>>
    /\ UNCHANGED <<shared, call, mapping_id, matching_sids>>

\* The caller takes the value of its finished call; the locals are gone.
call_returned(p) ==
    /\ pc[p] = "done"
    /\ pc' = [pc EXCEPT ![p] = "idle"]
    /\ call' = [call EXCEPT ![p] = NoCall]
    /\ ret' = [ret EXCEPT ![p] = NoRet]
    /\ mapping_id' = [mapping_id EXCEPT ![p] = None]
    /\ UNCHANGED <<shared, guards, matching_sids>>

(***************************************************************************)
(* Inputs                                                                  *)
(***************************************************************************)
NoTags == EmptyMap
Tag(a, values) == [x \in {a} |-> values]
Tags2(a, va, b, vb) == [x \in {a, b} |-> IF x = a THEN va ELSE vb]

\* events and filters of the concurrent specifications
ConcEvents == {E1, E3, E1Expired, E5}
ConcFilters ==
    { Flt({"i1", "i9"}, {}, {}, None, None, NoTags, None),
      Flt({}, {1}, {}, Some(2), Some(1), NoTags, None),
      Flt({}, {1}, {"a1"}, None, None, NoTags, None),
      Flt({}, {}, {}, Some(1), None, Tag("p", {"y"}), Some(1)) }

IndexEvent(p, events) ==
    \/ pc[p] = "idle" /\ \E e \in events : index_event_rejected(p, e)
    \/ pc[p] = "idle" /\ \E e \in events : index_event_next_sid(p, e)
    \/ index_event_mapping(p)
    \/ index_event_kinds(p)
    \/ index_event_authors(p)
    \/ index_event_created(p)
    \/ index_event_tag(p)
    \/ index_event_drop(p)

Query(p, filters) ==
    \/ pc[p] = "idle" /\ \E f \in filters : query_ids(p, f)
    \/ pc[p] = "idle" /\ \E f \in filters : query_since_after_until(p, f)
    \/ pc[p] = "idle" /\ \E f \in filters : query_begin(p, f)
    \/ query_read_kinds(p)
    \/ query_read_authors(p)
    \/ query_read_created_at(p)
    \/ query_read_tags(p)
    \/ query_read_mapping(p)
    \/ query_drop(p)

Clear(p) ==
    \/ clear_begin(p)
    \/ clear_kinds(p)
    \/ clear_authors(p)
    \/ clear_drop(p)

\* events and filters of the single-task specification
SeqEvents == AllEvents
IdSets == {{}, {"i1", "i9"}}
KindSets == {{}, {1}, {7}, {1, 7}}
AuthorSets == {{}, {"a1"}, {"a2"}}
Times == {None, Some(1), Some(2)}
TagSets == {NoTags, Tag("e", {"x"}), Tag("e", {"x", "z"}), Tag("e", {}),
            Tags2("e", {"x"}, "p", {"y"})}
Limits == {None, Some(1), Some(2)}

\* the number of predicate categories a filter carries
Categories(f) ==
    (IF f.kinds # {} THEN 1 ELSE 0) + (IF f.authors # {} THEN 1 ELSE 0)
    + (IF f.since # None \/ f.until # None THEN 1 ELSE 0)
    + (IF DOMAIN f.generic_tags # {} THEN 1 ELSE 0)

\* Filters of up to two categories; a limit with at most one category, an
\* id-set with at most one; kinds + authors with a third category; since
\* after until with every combination of the rest; and the filter without
\* predicate with the largest limit.
SeqFilters ==
    {f \in [ids : IdSets, kinds : KindSets, authors : AuthorSets, since : Times,
             until : Times, generic_tags : TagSets, limit : Limits] :
        \/ /\ Categories(f) <= 2
           /\ f.limit # None => Categories(f) <= 1
           /\ f.ids # {} => Categories(f) <= 1
        \/ /\ Categories(f) = 3
           /\ f.ids = {} /\ f.limit = None
           /\ f.kinds \in {{1}, {7}} /\ f.authors # {}
           /\ f.until = None
           /\ f.generic_tags \in {NoTags, Tag("e", {"x"})}
        \/ /\ f.ids = {}
           /\ f.since = Some(2) /\ f.until = Some(1)}
    \cup {Flt({}, {}, {}, None, None, NoTags, Some(usize_MAX))}

\* Tasks calling index_event, query and clear concurrently
Next ==
    \E p \in Tasks :
        IndexEvent(p, ConcEvents) \/ Query(p, ConcFilters) \/ Clear(p) \/ call_returned(p)
Spec == Init /\ [][Next]_vars

\* The same without clear
NextNoClear ==
    \E p \in Tasks : IndexEvent(p, ConcEvents) \/ Query(p, ConcFilters) \/ call_returned(p)
SpecNoClear == Init /\ [][NextNoClear]_vars

\* One task calling the operations one after another
NextSeq ==
    IndexEvent("t1", SeqEvents) \/ Query("t1", SeqFilters) \/ Clear("t1") \/ call_returned("t1")
SpecSeq == Init /\ [][NextSeq]_vars

(***************************************************************************)
(* Vocabulary of the properties                                            *)
(***************************************************************************)
IsQuery(p) == call[p].op = "query"
IsIndexEvent(p) == call[p].op = "index_event"
ToSet(s) == {s[i] : i \in DOMAIN s}
Bucket(index, k) == IF k \in DOMAIN index THEN index[k] ELSE {}
TagBucket(index, a) == IF a \in DOMAIN index THEN index[a] ELSE EmptyMap
\* the values an event carries for a tag letter
ValuesOf(e, a) == {e.tags[i][2] : i \in {j \in DOMAIN e.tags : e.tags[j][1] = a}}
LettersOf(e) == {e.tags[i][1] : i \in DOMAIN e.tags}
\* every composite key held by some secondary index
IndexedKeys ==
    UNION {kinds_index[k] : k \in DOMAIN kinds_index}
    \cup UNION {authors_index[k] : k \in DOMAIN authors_index}
    \cup UNION {created_at_index[k] : k \in DOMAIN created_at_index}
    \cup UNION {DOMAIN tags_index[a] : a \in DOMAIN tags_index}
\* the query of task p has returned (its value is in ret[p])
QueryDone(p) == pc[p] = "done" /\ IsQuery(p) /\ ret[p].kind = "Vec"
\* ... and it went through the indexes
Resolved(p) ==
    QueryDone(p) /\ call[p].filter.ids = {} /\ ~since_after_until(call[p].filter)
InterAll(SS) == {x \in UNION SS : \A S \in SS : x \in S}

(***************************************************************************)
(* C1: with an empty id-set and no limit, the events returned are those of  *)
(* the intersection of the candidate sets of the categories the filter      *)
(* carries (kinds, authors, time range, tags); one empty candidate set      *)
(* makes the result empty.                                                  *)
(***************************************************************************)
CandidateSets(f) ==
    (IF f.kinds # {} THEN {query_index(kinds_index, f.kinds)} ELSE {})
    \cup (IF f.authors # {} THEN {query_index(authors_index, f.authors)} ELSE {})
    \cup (IF f.since # None /\ f.until # None
          THEN {range_inclusive(created_at_index, f.since[1], f.until[1])}
          ELSE IF f.since # None THEN {range_from(created_at_index, f.since[1])}
          ELSE IF f.until # None THEN {range_to_inclusive(created_at_index, f.until[1])}
          ELSE {})
    \cup (IF DOMAIN f.generic_tags # {}
          THEN {tags_matching(tags_index, f.generic_tags)} ELSE {})

\* C1: the result is the intersection of the candidate sets of the categories present
C1_ResultIsIntersection ==
    \A p \in Tasks :
        (Resolved(p) /\ call[p].filter.limit = None /\ Categories(call[p].filter) >= 1)
        => /\ ToSet(ret[p].ids)
                = {mapping[k.sid] : k \in InterAll(CandidateSets(call[p].filter))}
           /\ ({} \in CandidateSets(call[p].filter) => ret[p].ids = <<>>)

(***************************************************************************)
(* C2: no reachable state has two calls waiting on locks held by one        *)
(* another.                                                                 *)
(***************************************************************************)
\* the lock a call is about to take
Wanted(p) ==
    CASE pc[p] = "ie_mapping" -> <<"mapping", "write">>
      [] pc[p] = "ie_kinds" -> <<"kinds", "write">>
      [] pc[p] = "ie_authors" -> <<"authors", "write">>
      [] pc[p] = "ie_created_at" -> <<"created_at", "write">>
      [] pc[p] = "ie_tags" -> <<"tags", "write">>
      [] pc[p] = "q_kinds" -> <<"kinds", "read">>
      [] pc[p] = "q_authors" -> <<"authors", "read">>
      [] pc[p] = "q_created_at" -> <<"created_at", "read">>
      [] pc[p] = "q_tags" -> <<"tags", "read">>
      [] pc[p] = "q_mapping" -> <<"mapping", "read">>
      [] pc[p] = "cl_kinds" -> <<"kinds", "write">>
      [] pc[p] = "cl_authors" -> <<"authors", "write">>
      [] OTHER -> None

WaitsOn(p, q) ==
    /\ Wanted(p) # None
    /\ \/ Holds(q, Wanted(p)[1], "write")
       \/ Wanted(p)[2] = "write" /\ Holds(q, Wanted(p)[1], "read")

\* C2: no two calls wait on locks held by one another
C2_NoMutualWait ==
    \A p, q \in Tasks : p # q => ~(WaitsOn(p, q) /\ WaitsOn(q, p))

(***************************************************************************)
(* C3: without clear, a query evaluates its predicates on a state in which  *)
(* every composite key held by some index belongs to an admitted event and  *)
(* is in the kind, author and created-at buckets of that event and under    *)
(* every tag letter of it: all of the footprint, never a part.              *)
(***************************************************************************)
FullFootprint(m) ==
    /\ m.sid \in DOMAIN mapping
    /\ LET e == EventOfId(mapping[m.sid])
       IN  /\ m \in Bucket(kinds_index, e.kind)
           /\ m \in Bucket(authors_index, e.pubkey)
           /\ m \in Bucket(created_at_index, e.created_at)
           /\ \A a \in LettersOf(e) : m \in DOMAIN TagBucket(tags_index, a)

\* the four read guards of the index locks are held: lines 231-279 run
Evaluating(p) ==
    /\ IsQuery(p)
    /\ \A l \in {"kinds", "authors", "created_at", "tags"} : Holds(p, l, "read")

\* C3: while a query evaluates, every indexed key has its whole footprint
C3_NoPartialFootprint ==
    \A p \in Tasks : Evaluating(p) => \A m \in IndexedKeys : FullFootprint(m)

\* a query evaluates while an index_event has written the mapping and waits
C3_Witness ==
    \E p, q \in Tasks :
        /\ Evaluating(p) /\ pc[p] = "q_mapping"
        /\ pc[q] = "ie_kinds"
        /\ IndexedKeys # {}

(***************************************************************************)
(* C4: index_event of an expired or ephemeral event returns to_store =     *)
(* false with nothing to discard in one step that leaves the mapping, the  *)
(* four indexes and the counter as they were; the mapping only ever gains  *)
(* the identifier of an event that an admitting call carries, and a query  *)
(* without id-set returns identifiers of the mapping only.                 *)
(***************************************************************************)
NotIndexed(e) == e.expired \/ e.ephemeral

\* C4: an expired or ephemeral event is turned away and leaves no footprint
C4_RejectedLeavesNoFootprint ==
    [][\A p \in Tasks :
          /\ (pc[p] = "idle" /\ call'[p].op = "index_event" /\ NotIndexed(call'[p].event))
             => /\ pc'[p] = "done"
                /\ ret'[p] = EventIndexResult(FALSE, {})
                /\ UNCHANGED shared
          /\ (IsIndexEvent(p) /\ NotIndexed(call[p].event))
             => /\ pc[p] = "done"
                /\ guards[p] = <<>>
                /\ mapping_id[p] = None
          /\ mapping' # mapping
             => \E q \in Tasks :
                   /\ IsIndexEvent(q) /\ ~NotIndexed(call[q].event)
                   /\ DOMAIN mapping' \ DOMAIN mapping = {mapping_id[q].sid}
                   /\ mapping'[mapping_id[q].sid] = call[q].event.id
                   /\ \A s \in DOMAIN mapping : mapping'[s] = mapping[s]
          /\ (IsQuery(p) /\ pc[p] = "q_mapping" /\ pc'[p] = "q_drop")
             => ToSet(ret'[p].ids) \subseteq {mapping[s] : s \in DOMAIN mapping}
      ]_vars

\* an ephemeral event has been turned away from indexes that hold an event
C4_Witness ==
    \E p \in Tasks :
        /\ pc[p] = "done" /\ IsIndexEvent(p) /\ call[p].event.ephemeral
        /\ ret[p] = EventIndexResult(FALSE, {})
        /\ IndexedKeys # {}
        /\ "i5" \notin {mapping[s] : s \in DOMAIN mapping}

(***************************************************************************)
(* C5: index_event of an event neither expired nor ephemeral returns       *)
(* to_store = true with nothing to discard.  Its steps add one entry to    *)
(* the mapping (a fresh surrogate key for the event's identifier) and the  *)
(* one composite key (timestamp, that key) to the kind bucket of the       *)
(* event's kind, the author bucket of its author, the created-at bucket of *)
(* its timestamp and, with all the values of the letter, under each of its *)
(* tag letters; no step of it changes any other entry, and when the last   *)
(* insertion is done the whole footprint is there.                         *)
(***************************************************************************)
\* index2 is index with the new key m added to bucket k, all else as it was
Adds(index, index2, k, m) ==
    /\ m \notin Bucket(index, k)
    /\ \A x \in DOMAIN index \cup DOMAIN index2 \cup {k} :
          Bucket(index2, x) = (IF x = k THEN Bucket(index, x) \cup {m} ELSE Bucket(index, x))

\* tags is tags2 with the new key m added, with its values, under the letters of e
AddsTags(index, index2, e, m) ==
    \A a \in DOMAIN index \cup DOMAIN index2 \cup LettersOf(e) :
        /\ m \notin DOMAIN TagBucket(index, a)
        /\ DOMAIN TagBucket(index2, a)
              = DOMAIN TagBucket(index, a) \cup (IF a \in LettersOf(e) THEN {m} ELSE {})
        /\ \A m2 \in DOMAIN TagBucket(index2, a) :
              index2[a][m2] = (IF m2 = m THEN ValuesOf(e, a) ELSE index[a][m2])

Footprint(e, m, map, kinds, authors, created_at, tags) ==
    /\ m.sid \in DOMAIN map /\ map[m.sid] = e.id
    /\ m \in Bucket(kinds, e.kind)
    /\ m \in Bucket(authors, e.pubkey)
    /\ m \in Bucket(created_at, e.created_at)
    /\ \A a \in LettersOf(e) :
          m \in DOMAIN TagBucket(tags, a) /\ tags[a][m] = ValuesOf(e, a)

\* C5: an admitted event gets exactly its footprint and (true, {}) is returned
C5_AdmittedFootprint ==
    [][\A p \in Tasks :
          (IsIndexEvent(p) /\ ~NotIndexed(call[p].event)
             /\ (pc'[p] # pc[p] \/ guards'[p] # guards[p]))
          => LET e == call[p].event
                 m == mapping_id[p]
             IN  /\ m.timestamp = e.created_at
                 /\ pc[p] = "ie_mapping"
                    => /\ m.sid \notin DOMAIN mapping
                       /\ DOMAIN mapping' = DOMAIN mapping \cup {m.sid}
                       /\ mapping'[m.sid] = e.id
                       /\ \A s \in DOMAIN mapping : mapping'[s] = mapping[s]
                 /\ pc[p] # "ie_mapping" => mapping' = mapping
                 /\ IF pc[p] = "ie_kinds"
                    THEN Adds(kinds_index, kinds_index', e.kind, m)
                    ELSE kinds_index' = kinds_index
                 /\ IF pc[p] = "ie_authors"
                    THEN Adds(authors_index, authors_index', e.pubkey, m)
                    ELSE authors_index' = authors_index
                 /\ IF pc[p] = "ie_created_at"
                    THEN Adds(created_at_index, created_at_index', e.created_at, m)
                    ELSE created_at_index' = created_at_index
                 /\ IF pc[p] = "ie_tags"
                    THEN AddsTags(tags_index, tags_index', e, m)
                    ELSE tags_index' = tags_index
                 /\ pc[p] = "ie_tags"
                    => Footprint(e, m, mapping', kinds_index', authors_index',
                                 created_at_index', tags_index')
                 /\ pc'[p] = "done" => ret'[p] = EventIndexResult(TRUE, {})
                 /\ pc'[p] = "idle" => pc[p] = "done"
      ]_vars

\* a second event with tags has been admitted next to an earlier one
C5_Witness ==
    \E p \in Tasks :
        /\ pc[p] = "done" /\ IsIndexEvent(p) /\ ~NotIndexed(call[p].event)
        /\ ret[p] = EventIndexResult(TRUE, {})
        /\ LettersOf(call[p].event) # {}
        /\ Cardinality(DOMAIN mapping) >= 2
        /\ Footprint(call[p].event, mapping_id[p], mapping, kinds_index, authors_index,
                     created_at_index, tags_index)

(***************************************************************************)
(* C6: a query without id-set whose filter matches n events returns the     *)
(* min(limit, n) of them that come first newest-first (larger timestamp     *)
(* first, smaller surrogate key first among equal timestamps), in the       *)
(* reverse of that order: timestamps never decrease along the result; with  *)
(* no limit all n are returned.                                             *)
(***************************************************************************)
\* the number a surrogate key was issued as (the counter value it encodes)
IssueNumber(sid) == sid[5] * 16777216 + sid[6] * 65536 + sid[7] * 256 + sid[8]

NewerFirst(k1, k2) ==
    \/ k1.timestamp > k2.timestamp
    \/ k1.timestamp = k2.timestamp /\ IssueNumber(k1.sid) < IssueNumber(k2.sid)

\* the keys the filter of task p matches in the present indexes
Matches(p) ==
    evaluate(call[p].filter, kinds_index, authors_index, created_at_index, tags_index)

\* how many keys of K come before k, newest first
Rank(K, k) == Cardinality({k2 \in K : NewerFirst(k2, k)})

Window(K, limit) ==
    LET n == IF limit = None THEN Cardinality(K) ELSE Min(limit[1], Cardinality(K))
    IN  [i \in 1..n |-> mapping[(CHOOSE k \in K : Rank(K, k) = n - i).sid]]

\* C6: the result is the window of the min(limit, n) newest matches, oldest first
C6_NewestWindowOldestFirst ==
    \A p \in Tasks :
        Resolved(p)
        => /\ ret[p].ids = Window(Matches(p), call[p].filter.limit)
           /\ \A i, j \in DOMAIN ret[p].ids :
                 i < j => EventOfId(ret[p].ids[i]).created_at
                              <= EventOfId(ret[p].ids[j]).created_at

\* three matches, two of them of one timestamp, cut to the two newest
C6_Witness ==
    \E p \in Tasks :
        /\ Resolved(p)
        /\ call[p].filter.limit = Some(2)
        /\ Cardinality(Matches(p)) = 3
        /\ ret[p].ids = <<"i3", "i2">>

(***************************************************************************)
(* C7: with several letters in the tag constraint, a key is a candidate of  *)
(* the tag predicate only if, for every requested letter, the values        *)
(* recorded for it under that letter include all the required ones.         *)
(***************************************************************************)
RecordedValues(m, a) ==
    IF m \in DOMAIN TagBucket(tags_index, a) THEN tags_index[a][m] ELSE {}

\* C7: a tag candidate satisfies every requested letter
C7_AllLettersRequired ==
    \A p \in Tasks :
        (IsQuery(p) /\ pc[p] = "q_mapping" /\ DOMAIN call[p].filter.generic_tags # {})
        => \A m \in tags_matching(tags_index, call[p].filter.generic_tags) :
              \A a \in DOMAIN call[p].filter.generic_tags :
                  call[p].filter.generic_tags[a] \subseteq RecordedValues(m, a)

(***************************************************************************)
(* C8: with a filter that constrains one tag letter and nothing else, an    *)
(* admitted event is returned exactly when the values it carries for that   *)
(* letter include all the required values.                                  *)
(***************************************************************************)
OneLetterOnly(f) ==
    /\ f.ids = {} /\ f.kinds = {} /\ f.authors = {}
    /\ f.since = None /\ f.until = None /\ f.limit = None
    /\ Cardinality(DOMAIN f.generic_tags) = 1

\* the surrogate keys of the admitted events that are among Es
Admitted(Es) == {s \in DOMAIN mapping : EventOfId(mapping[s]) \in Es}

ReturnsExactly(p, S) ==
    /\ ToSet(ret[p].ids) = {mapping[s] : s \in S}
    /\ Len(ret[p].ids) = Cardinality(S)

\* C8 as stated: returned exactly when the carried values include the required ones
C8_SupersetOnly ==
    \A p \in Tasks :
        (QueryDone(p) /\ OneLetterOnly(call[p].filter))
        => LET a == CHOOSE x \in DOMAIN call[p].filter.generic_tags : TRUE
               Sup == {e \in AllEvents : call[p].filter.generic_tags[a] \subseteq ValuesOf(e, a)}
           IN  ReturnsExactly(p, Admitted(Sup))

\* C8 amended: returned exactly when the event carries the letter and its values
\* include the required ones
C8_CarriesLetterAndSuperset ==
    \A p \in Tasks :
        (QueryDone(p) /\ OneLetterOnly(call[p].filter))
        => LET a == CHOOSE x \in DOMAIN call[p].filter.generic_tags : TRUE
               Sup == {e \in AllEvents :
                          /\ ValuesOf(e, a) # {}
                          /\ call[p].filter.generic_tags[a] \subseteq ValuesOf(e, a)}
           IN  ReturnsExactly(p, Admitted(Sup))

\* E1 carries e -> {x, y}: it is returned for e -> {x}, E3 (no e) is not
C8_Witness ==
    \E p \in Tasks :
        /\ QueryDone(p) /\ OneLetterOnly(call[p].filter)
        /\ call[p].filter.generic_tags = Tag("e", {"x"})
        /\ {"i1", "i3"} \subseteq {mapping[s] : s \in DOMAIN mapping}
        /\ ret[p].ids = <<"i1">>

(***************************************************************************)
(* C9: with the time range as the only predicate, the events matched are    *)
(* the admitted events whose timestamp t has since <= t <= until, t >=      *)
(* since, or t <= until, according to the bounds given, both inclusive; all *)
(* of them are returned when no limit is given.                             *)
(***************************************************************************)
TimeOnly(f) ==
    /\ f.ids = {} /\ f.kinds = {} /\ f.authors = {}
    /\ DOMAIN f.generic_tags = {}
    /\ f.since # None \/ f.until # None

\* C9: a time-only filter matches exactly the admitted events in the inclusive range
C9_InclusiveTimeRange ==
    \A p \in Tasks :
        (QueryDone(p) /\ TimeOnly(call[p].filter))
        => LET f == call[p].filter
               In == {e \in AllEvents :
                         /\ f.since # None => f.since[1] <= e.created_at
                         /\ f.until # None => e.created_at <= f.until[1]}
               n == Cardinality(Admitted(In))
           IN  /\ ToSet(ret[p].ids) \subseteq {mapping[s] : s \in Admitted(In)}
               /\ Len(ret[p].ids) = (IF f.limit = None THEN n ELSE Min(f.limit[1], n))
               /\ f.limit = None => ReturnsExactly(p, Admitted(In))

\* since = until = 2 with events at 1 and 2 admitted
C9_Witness ==
    \E p \in Tasks :
        /\ QueryDone(p) /\ TimeOnly(call[p].filter)
        /\ call[p].filter.since = Some(2) /\ call[p].filter.until = Some(2)
        /\ call[p].filter.limit = None
        /\ {"i1", "i2"} \subseteq {mapping[s] : s \in DOMAIN mapping}
        /\ ret[p].ids = <<"i2">>

(***************************************************************************)
(* C10: a query without id-set whose since is after its until returns the   *)
(* empty vector in one step, whatever the rest of the filter and the state  *)
(* of the indexes, and changes nothing.                                     *)
(***************************************************************************)
SinceAfterUntil(f) ==
    /\ f.ids = {}
    /\ f.since # None /\ f.until # None
    /\ f.since[1] > f.until[1]

\* C10: since after until gives the empty vector at once and changes nothing
C10_SinceAfterUntilEmpty ==
    [][\A p \in Tasks :
          /\ (pc[p] = "idle" /\ call'[p].op = "query" /\ SinceAfterUntil(call'[p].filter))
             => /\ pc'[p] = "done"
                /\ ret'[p] = Vec(<<>>)
                /\ UNCHANGED <<shared, guards>>
          /\ (IsQuery(p) /\ SinceAfterUntil(call[p].filter))
             => pc[p] = "done" /\ ret[p] = Vec(<<>>) /\ guards[p] = <<>>
      ]_vars

\* kinds, tags and a limit that would match indexed events, since after until
C10_Witness ==
    \E p \in Tasks :
        /\ QueryDone(p) /\ SinceAfterUntil(call[p].filter)
        /\ ret[p] = Vec(<<>>)
        /\ call[p].filter.kinds = {1}
        /\ call[p].filter.generic_tags = Tag("e", {"x"})
        /\ call[p].filter.limit = Some(2)
        /\ Cardinality(DOMAIN mapping) = 3
        /\ evaluate([call[p].filter EXCEPT !.since = None, !.until = None],
                    kinds_index, authors_index, created_at_index, tags_index) # {}

(***************************************************************************)
(* C11: a query whose filter has a non-empty id-set returns, in one step,   *)
(* a vector holding each identifier of the id-set once and nothing else,    *)
(* whatever the indexes hold and whatever the rest of the filter says; the  *)
(* step takes no lock and leaves the mapping, the indexes and the counter   *)
(* as they were.                                                            *)
(***************************************************************************)
EachOnce(s, S) == ToSet(s) = S /\ Len(s) = Cardinality(S)

\* C11: a non-empty id-set is returned as it is, without index or lock
C11_IdSetVerbatim ==
    [][\A p \in Tasks :
          /\ (pc[p] = "idle" /\ call'[p].op = "query" /\ call'[p].filter.ids # {})
             => /\ pc'[p] = "done"
                /\ ret'[p].kind = "Vec"
                /\ EachOnce(ret'[p].ids, call'[p].filter.ids)
                /\ UNCHANGED <<shared, guards>>
          /\ (IsQuery(p) /\ call[p].filter.ids # {})
             => /\ pc[p] = "done" /\ guards[p] = <<>>
                /\ EachOnce(ret[p].ids, call[p].filter.ids)
      ]_vars

\* two identifiers, one indexed and one never seen, with a limit of one and
\* since after until
C11_Witness ==
    \E p \in Tasks :
        /\ QueryDone(p)
        /\ call[p].filter.ids = {"i1", "i9"}
        /\ call[p].filter.limit = Some(1)
        /\ call[p].filter.since = Some(2) /\ call[p].filter.until = Some(1)
        /\ "i1" \in {mapping[s] : s \in DOMAIN mapping}
        /\ Len(ret[p].ids) = 2

(***************************************************************************)
(* C12: no step of a query changes the mapping, an index or the counter,    *)
(* and two queries with the same filter that were answered on the same      *)
(* index state hold the same sequence.  Two answers are known to come from  *)
(* the same index state when the filter's answer does not depend on the     *)
(* indexes (id-set, since after until) or when both calls still hold their  *)
(* read guard of the kind index, which no index_event and no clear can pass.*)
(***************************************************************************)
Answered(p) == IsQuery(p) /\ ret[p].kind = "Vec"
StepOf(p) == pc'[p] # pc[p] \/ guards'[p] # guards[p]
SameIndexState(p, q) ==
    \/ call[p].filter.ids # {}
    \/ since_after_until(call[p].filter)
    \/ Holds(p, "kinds", "read") /\ Holds(q, "kinds", "read")

\* C12: query changes nothing, and identical queries on an unmodified state
\* return identical sequences
C12_ReadOnlyRepeatable ==
    [][\A p \in Tasks :
          /\ ((IsQuery(p) \/ call'[p].op = "query") /\ StepOf(p)) => UNCHANGED shared
          /\ \A q \in Tasks \ {p} :
                (/\ Answered(p) /\ Answered(q)
                 /\ call[p].filter = call[q].filter
                 /\ SameIndexState(p, q))
                => ret[p].ids = ret[q].ids
      ]_vars

(***************************************************************************)
(* C13: the surrogate key an admitting index_event draws is greater, in the *)
(* order of SmallerIdentifier, than every key drawn before it: those of the *)
(* calls still running, those in the mapping and those in the indexes.      *)
(* All keys drawn so far are distinct and none is ever dropped from the     *)
(* mapping, so none is issued again, clear or no clear.                     *)
(***************************************************************************)
\* the surrogate keys drawn so far
IssuedSids ==
    DOMAIN mapping
    \cup {k.sid : k \in IndexedKeys}
    \cup {mapping_id[q].sid : q \in {r \in Tasks : mapping_id[r] # None}}

\* C13: surrogate keys are unique, issued in increasing order and never reissued
C13_SidsUniqueIncreasing ==
    [][\A p \in Tasks :
          /\ (pc[p] = "idle" /\ call'[p].op = "index_event" /\ ~NotIndexed(call'[p].event))
             => /\ mapping_id'[p] # None
                /\ \A s \in IssuedSids :
                      SmallerIdentifier_cmp(mapping_id'[p].sid, s) = "Greater"
          /\ \A q \in Tasks \ {p} :
                (mapping_id[p] # None /\ mapping_id[q] # None)
                => mapping_id[p].sid # mapping_id[q].sid
          /\ Cardinality(IssuedSids) = counter
          /\ DOMAIN mapping \subseteq DOMAIN mapping'
          /\ \A m1, m2 \in IndexedKeys : m1.sid = m2.sid => m1 = m2
      ]_vars

\* two admitting calls run at once after a clear, the later one with the
\* third key
C13_Witness ==
    \E p, q \in Tasks :
        /\ p # q
        /\ pc[p] = "ie_mapping" /\ pc[q] \in {"ie_mapping", "ie_kinds"}
        /\ counter = 3
        /\ created_at_index # EmptyMap /\ kinds_index = EmptyMap
        /\ IssueNumber(mapping_id[p].sid) = 2
        /\ IssueNumber(mapping_id[q].sid) = 1

(***************************************************************************)
(* C14: the steps of clear empty the kind index and the author index and    *)
(* change nothing else: the created-at index, the tag index, the mapping    *)
(* and the counter stay as they were.  A cleared event (its key is in the   *)
(* created-at index and no longer in the kind and author indexes) is not    *)
(* returned by a query on kinds alone or on authors alone, and is returned  *)
(* by a query on a time range alone or on one tag letter alone when it      *)
(* satisfies it.                                                            *)
(***************************************************************************)
IsClear(p) == call[p].op = "clear"
KeySids(index) == {k.sid : k \in UNION {index[x] : x \in DOMAIN index}}
ClearedSids ==
    (DOMAIN mapping \cap KeySids(created_at_index))
    \ (KeySids(kinds_index) \cup KeySids(authors_index))

KindsOnly(f) ==
    /\ f.ids = {} /\ f.kinds # {} /\ f.authors = {}
    /\ f.since = None /\ f.until = None /\ DOMAIN f.generic_tags = {}
AuthorsOnly(f) ==
    /\ f.ids = {} /\ f.kinds = {} /\ f.authors # {}
    /\ f.since = None /\ f.until = None /\ DOMAIN f.generic_tags = {}
InTimeRange(f, e) ==
    /\ f.since # None => f.since[1] <= e.created_at
    /\ f.until # None => e.created_at <= f.until[1]
CarriesRequired(f, e) ==
    \A a \in DOMAIN f.generic_tags :
        ValuesOf(e, a) # {} /\ f.generic_tags[a] \subseteq ValuesOf(e, a)

\* C14: clear empties the kind and author indexes only
C14_ClearKindsAndAuthorsOnly ==
    [][\A p \in Tasks :
          /\ (pc[p] = "idle" /\ call'[p].op = "clear") => UNCHANGED shared
          /\ (IsClear(p) /\ StepOf(p))
             => /\ UNCHANGED <<counter, mapping, created_at_index, tags_index>>
                /\ kinds_index' = (IF pc[p] = "cl_kinds" THEN EmptyMap ELSE kinds_index)
                /\ authors_index' = (IF pc[p] = "cl_authors" THEN EmptyMap ELSE authors_index)
                /\ pc'[p] = "done"
                   => kinds_index' = EmptyMap /\ authors_index' = EmptyMap /\ ret'[p] = Unit
          /\ (Resolved(p) /\ call[p].filter.limit = None)
             => LET f == call[p].filter
                    Sids(Cond(_)) == {s \in DOMAIN mapping : Cond(EventOfId(mapping[s]))}
                    ByKind(e) == e.kind \in f.kinds
                    ByAuthor(e) == e.pubkey \in f.authors
                    ByTime(e) == InTimeRange(f, e)
                    ByTag(e) == CarriesRequired(f, e)
                IN  /\ KindsOnly(f) => ReturnsExactly(p, Sids(ByKind) \ ClearedSids)
                    /\ AuthorsOnly(f) => ReturnsExactly(p, Sids(ByAuthor) \ ClearedSids)
                    /\ TimeOnly(f) => ReturnsExactly(p, Sids(ByTime))
                    /\ OneLetterOnly(f) => ReturnsExactly(p, Sids(ByTag))
      ]_vars

\* E1 was admitted and cleared, E2 admitted afterwards: kinds = {1} finds E2 only
C14_Witness ==
    \E p \in Tasks :
        /\ Resolved(p) /\ KindsOnly(call[p].filter)
        /\ call[p].filter.kinds = {1} /\ call[p].filter.limit = None
        /\ \E s \in ClearedSids : mapping[s] = "i1"
        /\ ret[p].ids = <<"i2">>

(***************************************************************************)
(* C15: when the filter gives both kinds and authors, an admitted event of  *)
(* a requested kind, held in the kind index, whose author is not among the  *)
(* requested authors is not in the result, whatever else the filter says.   *)
(***************************************************************************)
\* C15: an event of a requested kind by an author not requested is never returned
C15_AuthorOutsideExcluded ==
    \A p \in Tasks :
        (Resolved(p) /\ call[p].filter.kinds # {} /\ call[p].filter.authors # {})
        => \A s \in DOMAIN mapping :
              LET e == EventOfId(mapping[s])
                  m == MappingIdentifier(e.created_at, s)
              IN  (/\ e.kind \in call[p].filter.kinds
                   /\ m \in Bucket(kinds_index, e.kind)
                   /\ e.pubkey \notin call[p].filter.authors)
                  => mapping[s] \notin ToSet(ret[p].ids)

(***************************************************************************)
(* C16: every composite key held by an index, and every key a query has     *)
(* collected, has its surrogate key in the mapping, under the identifier of *)
(* an event of the key's timestamp; so the resolving loop of a query finds  *)
(* an identifier for every key it retains, and returns as many identifiers  *)
(* as keys are left after the limit.                                        *)
(***************************************************************************)
Mapped(k) ==
    /\ k.sid \in DOMAIN mapping
    /\ EventOfId(mapping[k.sid]).created_at = k.timestamp

\* C16: no indexed key lacks its mapping entry, and no key is skipped on resolving
C16_IndexedKeysAreMapped ==
    [][\A p \in Tasks :
          /\ \A k \in IndexedKeys \cup matching_sids[p] : Mapped(k)
          /\ (IsQuery(p) /\ pc[p] = "q_mapping" /\ pc'[p] = "q_drop")
             => LET limit == call[p].filter.limit
                    n == Cardinality(matching_sids[p])
                IN  Len(ret'[p].ids) = (IF limit = None THEN n ELSE Min(limit[1], n))
      ]_vars

\* a query cut by its limit has returned after a clear, while an index_event
\* has stored its mapping entry and not yet its keys
C16_Witness ==
    \E p, q \in Tasks :
        /\ QueryDone(p) /\ Resolved(p)
        /\ call[p].filter.limit = Some(1) /\ Len(ret[p].ids) = 1
        /\ Cardinality(Matches(p)) = 2
        /\ pc[q] = "ie_kinds" /\ mapping_id[q].sid \in DOMAIN mapping
        /\ kinds_index = EmptyMap /\ created_at_index # EmptyMap

(***************************************************************************)
(* C17: an admitting index_event takes the write locks in the order         *)
(* mapping, kinds, authors, created_at, tags; it never holds the write      *)
(* guards of two secondary indexes at once, and it holds no guard at the    *)
(* moment it requests a lock.                                               *)
(***************************************************************************)
AcquireOrder == <<"mapping", "kinds", "authors", "created_at", "tags">>
IndexLocks == {"kinds", "authors", "created_at", "tags"}
HeldIndexLocks(p, mode) == {l \in IndexLocks : Holds(p, l, mode)}
Acquires(p) == Len(guards'[p]) > Len(guards[p])

\* C17: locks in the fixed order, one secondary index at a time, each
\* released before the next is requested
C17_OneIndexLockAtATime ==
    [][\A p \in Tasks :
          /\ (pc[p] = "idle" /\ call'[p].op = "index_event" /\ ~NotIndexed(call'[p].event))
             => Wanted(p)' = <<"mapping", "write">>
          /\ (IsIndexEvent(p) /\ Acquires(p))
             => \E i \in DOMAIN AcquireOrder :
                   /\ guards'[p][Len(guards'[p])] = <<AcquireOrder[i], "write">>
                   /\ Wanted(p) = <<AcquireOrder[i], "write">>
                   /\ Wanted(p)' = (IF i < Len(AcquireOrder)
                                    THEN <<AcquireOrder[i + 1], "write">> ELSE None)
          /\ IsIndexEvent(p)
             => /\ Cardinality(HeldIndexLocks(p, "write")) <= 1
                /\ Wanted(p) # None => guards[p] = <<>>
      ]_vars

(***************************************************************************)
(* C18: a query takes the read locks in the order kinds, authors,           *)
(* created_at, tags and, last, mapping; it holds no read guard of a         *)
(* secondary index while it waits for the mapping lock or holds it.         *)
(***************************************************************************)
QueryOrder == <<"kinds", "authors", "created_at", "tags", "mapping">>

\* C18: the index read locks in the fixed order, all released before the
\* mapping lock is requested
C18_IndexLocksReleasedBeforeMapping ==
    [][\A p \in Tasks :
          /\ (pc[p] = "idle" /\ call'[p].op = "query" /\ pc'[p] # "done")
             => Wanted(p)' = <<"kinds", "read">>
          /\ (IsQuery(p) /\ Acquires(p))
             => \E i \in DOMAIN QueryOrder :
                   /\ guards'[p][Len(guards'[p])] = <<QueryOrder[i], "read">>
                   /\ Wanted(p) = <<QueryOrder[i], "read">>
                   /\ Wanted(p)' = (IF i < Len(QueryOrder)
                                    THEN <<QueryOrder[i + 1], "read">> ELSE None)
          /\ (IsQuery(p) /\ (Wanted(p) = <<"mapping", "read">> \/ Holds(p, "mapping", "read")))
             => HeldIndexLocks(p, "read") = {}
      ]_vars

(***************************************************************************)
(* C19: the vector a query without id-set returns holds no identifier       *)
(* twice, also when index_event was called more than once with one event.   *)
(***************************************************************************)
\* C19: no identifier occurs twice in a result
C19_NoIdentifierTwice ==
    \A p \in Tasks :
        Resolved(p)
        => \A i, j \in DOMAIN ret[p].ids : i # j => ret[p].ids[i] # ret[p].ids[j]

(***************************************************************************)
(* C20: a query whose filter carries no predicate (no id-set, no kinds, no  *)
(* authors, no since, no until, no tag constraint) ends with the empty      *)
(* vector, whatever the indexes hold and whatever its limit.                *)
(***************************************************************************)
NoPredicate(f) == f.ids = {} /\ Categories(f) = 0

\* C20: the filter without predicate returns the empty vector for every limit
C20_NoPredicateReturnsEmpty ==
    \A p \in Tasks :
        (IsQuery(p) /\ NoPredicate(call[p].filter) /\ pc[p] = "done")
        => ret[p] = Vec(<<>>)

====
